---- MODULE Spec2Model ----
(***************************************************************************)
(* Heater-tape control panel (src/src/pages/Index.tsx): the tape ->        *)
(* segment -> sensor state, the commands that change it, the 3 s           *)
(* simulation tick, the derived metrics, the alerts, the scalar settings,   *)
(* the persisted blob with its load-time migration and its save effects.    *)
(*                                                                         *)
(* Numbers.  Temperatures are JavaScript numbers with at most a few        *)
(* decimals; they are modelled as exact integers counting 1/10000 degC,    *)
(* so 0.1 degC = 1000 and 0.75 degC = 7500.  Math.random() is modelled as  *)
(* r/1000 for an integer r in 0..999.  Power is kept in percent.           *)
(*                                                                         *)
(* Texts.  The Cyrillic labels of the source are written in ASCII: "Tape"  *)
(* and "Segment" for the name prefixes, the contract numbers without their *)
(* number sign.                                                            *)
(***************************************************************************)
EXTENDS Integers, Sequences, FiniteSets, TLC

VARIABLES
    tapes,          \* useState<Tape[]> (Index.tsx:324)
    ticks,          \* number of simulation ticks run so far (setInterval, :353)
    steps,          \* number of commands and ticks run so far
    issuedSegIds,   \* history: every segment id ever given to a created segment
    issuedTapeIds,  \* history: every tape id ever given to a created tape
    raw,            \* localStorage[STORAGE_KEY]: absent, or the JSON value it holds
    parsed,         \* what loadSettings returned last: null, or the settings object
    loads,          \* how many times the blob has been loaded (startups included)
    alerts,         \* useState<Alert[]> (Index.tsx:327)
    settings,       \* systemOn, autoMode, thresholdTemp, alertSound, pollInterval (:328-333)
    boot,           \* history: the blob the running session found at its startup
    pending,        \* the save effects of the last render that have not run yet
    queue           \* the updaters handed to setTapes since the last render

vars == <<tapes, ticks, steps, issuedSegIds, issuedTapeIds, raw, parsed, loads,
          alerts, settings, boot, pending, queue>>

-----------------------------------------------------------------------------
(* Bounds of the exploration *)

\* commands and ticks are explored up to MaxSteps steps after startup
MaxSteps == 5
\* a persisted blob is loaded, written back and loaded again up to MaxLoads times
MaxLoads == 2

-----------------------------------------------------------------------------
(* Generic helpers *)

\* localStorage.getItem gives null, or a text that JSON.parse turns into v
Absent == [kind |-> "absent"]
Json(v) == [kind |-> "json", value |-> v]

\* loadSettings returns null, or the object v
NullSettings == [kind |-> "null"]
Settings(v) == [kind |-> "settings", value |-> v]

Has(r, k) == k \in DOMAIN r

\* the object {}
EmptyObject == [k \in {} |-> k]

\* the object spread { ...a, ...b }
Spread(a, b) ==
    [k \in (DOMAIN a) \cup (DOMAIN b) |-> IF k \in DOMAIN b THEN b[k] ELSE a[k]]

\* delete obj[k]
Without(r, k) == [x \in (DOMAIN r) \ {k} |-> r[x]]

Range(s) == {s[i] : i \in 1..Len(s)}

Max(a, b) == IF a >= b THEN a ELSE b

Abs(x) == IF x < 0 THEN -x ELSE x

RECURSIVE Flatten(_)
\* Array.prototype.flatMap over a list of lists
Flatten(ss) == IF ss = <<>> THEN <<>> ELSE Head(ss) \o Flatten(Tail(ss))

RECURSIVE SumOf(_)
SumOf(s) == IF s = <<>> THEN 0 ELSE Head(s) + SumOf(Tail(s))

RECURSIVE MaxOf(_, _)
\* reduce((m, x) => Math.max(m, x), m0)
MaxOf(s, m0) == IF s = <<>> THEN m0 ELSE MaxOf(Tail(s), Max(m0, Head(s)))

\* String(n).padStart(2, "0") and padStart(3, "0")
Pad2(n) == IF n < 10 THEN "0" \o ToString(n) ELSE ToString(n)
Pad3(n) == IF n < 10 THEN "00" \o ToString(n)
           ELSE IF n < 100 THEN "0" \o ToString(n) ELSE ToString(n)

\* Math.round(x * 10) / 10 for x = num/den (in 1/10000 degC), den > 0:
\* Math.round rounds half up (towards +infinity); the result is again in
\* 1/10000 degC and is a whole number of tenths.
RoundTenths(num, den) == ((2 * num + 1000 * den) \div (2000 * den)) * 1000

-----------------------------------------------------------------------------
(* Random draws.  One draw holds every Math.random() result createSegment   *)
(* uses: the sensor count (the length of temps), each sensor's temperature  *)
(* in whole degC (-5..9) and offline flag, the power (40..89), the warning  *)
(* flag, plus the serial and the clock text.                                *)

WarnDraw ==
    [temps |-> <<1, 2, 2>>, offline |-> <<FALSE, TRUE, FALSE>>,
     power |-> 89, warn |-> TRUE,  serial |-> "28-FFEE00112233", clock |-> "12:00:03"]

CalmDraw ==
    [temps |-> <<-2, -1>>, offline |-> <<TRUE, FALSE>>,
     power |-> 40, warn |-> FALSE, serial |-> "28-0102030405A0", clock |-> "12:00:06"]

SegDraws == {WarnDraw, CalmDraw}

-----------------------------------------------------------------------------
(* Entity construction *)

createSensors(segId, count, d) ==
    [j \in 1..count |->
        [id          |-> "DS18B20-" \o Pad2(segId) \o Pad2(j),
         serial      |-> d.serial,
         temperature |-> d.temps[j] * 10000,
         status      |-> IF d.offline[j] THEN "offline" ELSE "online",
         lastUpdate  |-> d.clock]]

createSegment(id, enabled, d) ==
    LET sensors == createSensors(id, Len(d.temps), d)
        total   == SumOf([j \in 1..Len(sensors) |-> sensors[j].temperature])
    IN  [id          |-> id,
         name        |-> "Segment " \o ToString(id),
         enabled     |-> enabled,
         power       |-> d.power,
         temperature |-> RoundTenths(total, Len(sensors)),
         targetTemp  |-> 5,
         status      |-> IF enabled THEN (IF d.warn THEN "warning" ELSE "normal") ELSE "off",
         sensorId    |-> "DS18B20-" \o Pad3(id),
         sensors     |-> sensors]

\* a slip: Math.floor(segCount * 0.7)
CeilSeventy_Floor(segCount) == (segCount * 7) \div 10

\* Math.ceil(segCount * 0.7)
CeilSeventy(segCount) == (segCount * 7 + 9) \div 10

createTape(id, segStartId, segCount, d) ==
    [id             |-> id,
     name           |-> "Tape " \o ToString(id),
     coordinates    |-> "",
     contractNumber |-> "",
     length         |-> "24",
     width          |-> "50",
     segments       |-> [i \in 1..segCount |->
                            createSegment(segStartId + i - 1, i - 1 < CeilSeventy(segCount), d)],
     enabled        |-> TRUE]

createInitialTapes(d1, d2) ==
    << [createTape(1, 1, 6, d1) EXCEPT !.coordinates = "55.7558, 37.6173",
                                       !.contractNumber = "2024-001"],
       [createTape(2, 7, 6, d2) EXCEPT !.coordinates = "55.7600, 37.6200",
                                       !.contractNumber = "2024-002"] >>

allSegments(ts) == Flatten([i \in 1..Len(ts) |-> ts[i].segments])

\* a slip: only the last tape's segments are looked at
getMaxSegId_LastTape(ts) ==
    IF Len(ts) = 0 THEN 0
    ELSE LET all == ts[Len(ts)].segments
         IN  IF Len(all) > 0 THEN MaxOf([i \in 1..Len(all) |-> all[i].id], all[1].id) ELSE 0

\* a slip: the number of segments instead of the largest id
getMaxSegId_Count(ts) == Len(Flatten([i \in 1..Len(ts) |-> ts[i].segments]))

getMaxSegId(ts) ==
    LET all == allSegments(ts)
    IN  IF Len(all) > 0 THEN MaxOf([i \in 1..Len(all) |-> all[i].id], all[1].id) ELSE 0

SegIds(ts) == {s.id : s \in Range(allSegments(ts))}
TapeIds(ts) == {t.id : t \in Range(ts)}

-----------------------------------------------------------------------------
(* Commands: each operator is the updater handed to setTapes(prev => ...).  *)

\* tapes.map(f) with f given per index
MapTapes(prev, F(_)) == [i \in 1..Len(prev) |-> F(prev[i])]

\* map over the segments of the tape with id tapeId, other tapes untouched
MapSegmentsOf(prev, tapeId, F(_)) ==
    [i \in 1..Len(prev) |->
        IF prev[i].id = tapeId
        THEN [prev[i] EXCEPT !.segments = [j \in 1..Len(@) |-> F(@[j])]]
        ELSE prev[i]]

\* a slip: switching a tape off switches its segments off with it
toggleTape_Cascade(prev, tapeId) ==
    MapTapes(prev, LAMBDA t :
        IF t.id = tapeId
        THEN [t EXCEPT !.enabled = ~@,
                       !.segments = [j \in 1..Len(@) |->
                                        IF t.enabled
                                        THEN [@[j] EXCEPT !.enabled = FALSE, !.status = "off"]
                                        ELSE @[j]]]
        ELSE t)

toggleTape(prev, tapeId) ==
    MapTapes(prev, LAMBDA t : IF t.id = tapeId THEN [t EXCEPT !.enabled = ~@] ELSE t)

updateTapeField(prev, tapeId, field, value) ==
    MapTapes(prev, LAMBDA t : IF t.id = tapeId THEN Spread(t, field :> value) ELSE t)

addTape(prev, d) ==
    LET maxTapeId == MaxOf([i \in 1..Len(prev) |-> prev[i].id], 0)
        maxSeg    == getMaxSegId(prev)
    IN  Append(prev, createTape(maxTapeId + 1, maxSeg + 1, 4, d))

removeTape(prev, tapeId) ==
    IF Len(prev) > 1 THEN SelectSeq(prev, LAMBDA t : t.id # tapeId) ELSE prev

\* a slip: the appended segment is created switched on
addSegmentToTape_Enabled(prev, tapeId, d) ==
    LET maxSeg == getMaxSegId(prev)
    IN  MapTapes(prev, LAMBDA t :
            IF t.id = tapeId
            THEN [t EXCEPT !.segments = Append(@, createSegment(maxSeg + 1, TRUE, d))]
            ELSE t)

addSegmentToTape(prev, tapeId, d) ==
    LET maxSeg == getMaxSegId(prev)
    IN  MapTapes(prev, LAMBDA t :
            IF t.id = tapeId
            THEN [t EXCEPT !.segments = Append(@, createSegment(maxSeg + 1, FALSE, d))]
            ELSE t)

\* a slip: the last-segment guard is missing
removeSegmentFromTape_NoGuard(prev, tapeId, segId) ==
    MapTapes(prev, LAMBDA t :
        IF t.id = tapeId
        THEN [t EXCEPT !.segments = SelectSeq(@, LAMBDA s : s.id # segId)]
        ELSE t)

\* a slip: the guard keeps two segments instead of one
removeSegmentFromTape_GuardTwo(prev, tapeId, segId) ==
    MapTapes(prev, LAMBDA t :
        IF t.id = tapeId
        THEN [t EXCEPT !.segments =
                 IF Len(@) > 2 THEN SelectSeq(@, LAMBDA s : s.id # segId) ELSE @]
        ELSE t)

removeSegmentFromTape(prev, tapeId, segId) ==
    MapTapes(prev, LAMBDA t :
        IF t.id = tapeId
        THEN [t EXCEPT !.segments =
                 IF Len(@) > 1 THEN SelectSeq(@, LAMBDA s : s.id # segId) ELSE @]
        ELSE t)

\* a slip: enabled is flipped, status is left as it was
toggleSegment_KeepStatus(prev, tapeId, segId) ==
    MapSegmentsOf(prev, tapeId, LAMBDA s :
        IF s.id = segId THEN [s EXCEPT !.enabled = ~s.enabled] ELSE s)

\* a slip: the status is taken from the old flag instead of the new one
toggleSegment_StatusOfOld(prev, tapeId, segId) ==
    MapSegmentsOf(prev, tapeId, LAMBDA s :
        IF s.id = segId
        THEN [s EXCEPT !.enabled = ~s.enabled,
                       !.status  = IF s.enabled THEN "normal" ELSE "off"]
        ELSE s)

\* a slip: a segment that is switched off loses its power setting
toggleSegment_ZeroPower(prev, tapeId, segId) ==
    MapSegmentsOf(prev, tapeId, LAMBDA s :
        IF s.id = segId
        THEN [s EXCEPT !.enabled = ~s.enabled,
                       !.status  = IF ~s.enabled THEN "normal" ELSE "off",
                       !.power   = IF s.enabled THEN 0 ELSE @]
        ELSE s)

toggleSegment(prev, tapeId, segId) ==
    MapSegmentsOf(prev, tapeId, LAMBDA s :
        IF s.id = segId
        THEN [s EXCEPT !.enabled = ~s.enabled,
                       !.status  = IF ~s.enabled THEN "normal" ELSE "off"]
        ELSE s)

setSegPower(prev, tapeId, segId, power) ==
    MapSegmentsOf(prev, tapeId, LAMBDA s :
        IF s.id = segId THEN [s EXCEPT !.power = power] ELSE s)

setSegTargetTemp(prev, tapeId, segId, targetTemp) ==
    MapSegmentsOf(prev, tapeId, LAMBDA s :
        IF s.id = segId THEN [s EXCEPT !.targetTemp = targetTemp] ELSE s)

\* a slip: the button flips every segment instead of switching it on
enableAllSegments_Flip(prev, tapeId) ==
    MapSegmentsOf(prev, tapeId, LAMBDA s :
        [s EXCEPT !.enabled = ~s.enabled,
                  !.status  = IF ~s.enabled THEN "normal" ELSE "off"])

\* the "enable all" and "disable all" buttons of a tape card
enableAllSegments(prev, tapeId) ==
    MapSegmentsOf(prev, tapeId, LAMBDA s : [s EXCEPT !.enabled = TRUE, !.status = "normal"])

disableAllSegments(prev, tapeId) ==
    MapSegmentsOf(prev, tapeId, LAMBDA s : [s EXCEPT !.enabled = FALSE, !.status = "off"])

-----------------------------------------------------------------------------
(* Simulation tick *)

\* a slip: a span of 2.0 instead of 1.5
Drift_Wide(r) == (r - 500) * 20

\* drift = (Math.random() - 0.5) * 1.5, with Math.random() = r/1000, in 1/10000 degC
Drift(r) == (r - 500) * 15

\* a slip: the status is recomputed from the new temperature
driftSegment_Restatus(s, r) ==
    LET newTemp == RoundTenths(s.temperature + Drift(r), 1)
    IN  [s EXCEPT !.temperature = newTemp,
                  !.status = IF newTemp > s.targetTemp * 10000 THEN "warning" ELSE "normal"]

\* a slip: the sensor readings are moved along with the segment's
driftSegment_WithSensors(s, r) ==
    [s EXCEPT !.temperature = RoundTenths(s.temperature + Drift(r), 1),
              !.sensors = [j \in 1..Len(@) |-> [@[j] EXCEPT !.lastUpdate = "12:00:09"]]]

\* newTemp = Math.round((s.temperature + drift) * 10) / 10
driftSegment(s, r) == [s EXCEPT !.temperature = RoundTenths(s.temperature + Drift(r), 1)]

\* a slip: the owning tape's switch is not looked at
tick_IgnoreTape(prev, rnd) ==
    [i \in 1..Len(prev) |->
        [prev[i] EXCEPT !.segments =
            [j \in 1..Len(@) |->
                IF ~@[j].enabled
                THEN @[j]
                ELSE driftSegment(@[j], rnd[@[j].id])]]]

\* rnd gives the Math.random() result used for each segment id
tick(prev, rnd) ==
    [i \in 1..Len(prev) |->
        [prev[i] EXCEPT !.segments =
            [j \in 1..Len(@) |->
                IF ~@[j].enabled \/ ~prev[i].enabled
                THEN @[j]
                ELSE driftSegment(@[j], rnd[@[j].id])]]]

-----------------------------------------------------------------------------
(* Derived metrics, recomputed on every render *)

enabledSegments(ts) == SelectSeq(allSegments(ts), LAMBDA s : s.enabled)

activeCount(ts) == Len(enabledSegments(ts))

\* Number.prototype.toFixed(1) of num/den (den > 0): half away from zero
ToFixed1(num, den) ==
    LET t == (20 * Abs(num) + den) \div (2 * den)
    IN  (IF num < 0 THEN "-" ELSE "") \o ToString(t \div 10) \o "." \o ToString(t % 10)

SumTemperature(segs) == SumOf([i \in 1..Len(segs) |-> segs[i].temperature])
SumPower(segs) == SumOf([i \in 1..Len(segs) |-> segs[i].power])

MeanTempText(segs) ==
    IF Len(segs) > 0 THEN ToFixed1(SumTemperature(segs), 10000 * Len(segs)) ELSE "-"

\* sum of (power / 100) * 0.5 kW = SumPower / 200
PowerText(segs) == ToFixed1(SumPower(segs), 200)

avgTemp(ts) == MeanTempText(enabledSegments(ts))

totalPower(ts) == PowerText(enabledSegments(ts))

-----------------------------------------------------------------------------
(* Load-time migration.  A JSON object is a function from its keys to its   *)
(* values; a key the object does not carry is not in its domain (reading   *)
(* it gives undefined).  Arrays are truthy also when empty.                *)

migrateSegments(segs, d) ==
    [i \in 1..Len(segs) |->
        IF ~Has(segs[i], "sensors")
        THEN Spread(segs[i], "sensors" :> createSensors(segs[i].id, Len(d.temps), d))
        ELSE segs[i]]

\* a slip: enabled: t.enabled || true
migrateTapes_EnabledOr(ts, d) ==
    [i \in 1..Len(ts) |->
        LET t == ts[i]
        IN  Spread(t,
              [coordinates    |-> IF Has(t, "coordinates") THEN t.coordinates ELSE "",
               contractNumber |-> IF Has(t, "contractNumber") THEN t.contractNumber ELSE "",
               length         |-> IF Has(t, "length") THEN t.length ELSE "24",
               width          |-> IF Has(t, "width") THEN t.width ELSE "50",
               enabled        |-> IF Has(t, "enabled") /\ t.enabled THEN t.enabled ELSE TRUE,
               segments       |-> migrateSegments(IF Has(t, "segments") THEN t.segments ELSE <<>>, d)])]

migrateTapes(ts, d) ==
    [i \in 1..Len(ts) |->
        LET t == ts[i]
        IN  Spread(t,
              [coordinates    |-> IF Has(t, "coordinates") THEN t.coordinates ELSE "",
               contractNumber |-> IF Has(t, "contractNumber") THEN t.contractNumber ELSE "",
               length         |-> IF Has(t, "length") THEN t.length ELSE "24",
               width          |-> IF Has(t, "width") THEN t.width ELSE "50",
               enabled        |-> IF Has(t, "enabled") THEN t.enabled ELSE TRUE,
               segments       |-> migrateSegments(IF Has(t, "segments") THEN t.segments ELSE <<>>, d)])]

\* (parsed.tapeLength as string) || "24": undefined and "" are falsy
TextOr(obj, key, default) == IF Has(obj, key) /\ obj[key] # "" THEN obj[key] ELSE default

\* the tape that wraps a legacy flat segment list
legacyTape(obj, d) ==
    [id             |-> 1,
     name           |-> "Tape 1",
     coordinates    |-> "",
     contractNumber |-> "",
     length         |-> TextOr(obj, "tapeLength", "24"),
     width          |-> TextOr(obj, "tapeWidth", "50"),
     segments       |-> migrateSegments(obj.segments, d),
     enabled        |-> TRUE]

loadSettings(stored, d) ==
    IF stored.kind # "json"
    THEN NullSettings
    ELSE LET p0 == stored.value
             p1 == IF Has(p0, "segments") /\ ~Has(p0, "tapes")
                   THEN Without(Spread(p0, "tapes" :> <<legacyTape(p0, d)>>), "segments")
                   ELSE p0
             p2 == IF Has(p1, "tapes")
                   THEN Spread(p1, "tapes" :> migrateTapes(p1.tapes, d))
                   ELSE p1
         IN  Settings(p2)

-----------------------------------------------------------------------------
(* Alerts *)

generateAlerts ==
    << [id |-> 1, timestamp |-> "13.02.2026 14:32", severity |-> "critical",
        message |-> "segment 9 overheated", acknowledged |-> FALSE],
       [id |-> 2, timestamp |-> "13.02.2026 13:15", severity |-> "high",
        message |-> "sensor DS18B20-011 silent", acknowledged |-> FALSE],
       [id |-> 3, timestamp |-> "13.02.2026 12:40", severity |-> "medium",
        message |-> "line L2 above 4.2 kW", acknowledged |-> TRUE],
       [id |-> 4, timestamp |-> "13.02.2026 11:00", severity |-> "low",
        message |-> "maintenance in 48 hours", acknowledged |-> TRUE],
       [id |-> 5, timestamp |-> "13.02.2026 09:20", severity |-> "high",
        message |-> "short circuit on segment 6", acknowledged |-> TRUE] >>

\* a slip: the flag is flipped instead of set
acknowledgeAlert_Flip(prev, id) ==
    [i \in 1..Len(prev) |->
        IF prev[i].id = id
        THEN Spread(prev[i], "acknowledged" :> ~prev[i].acknowledged)
        ELSE prev[i]]

\* prev.map(a => (a.id === id ? { ...a, acknowledged: true } : a))
acknowledgeAlert(prev, id) ==
    [i \in 1..Len(prev) |->
        IF prev[i].id = id THEN Spread(prev[i], "acknowledged" :> TRUE) ELSE prev[i]]

-----------------------------------------------------------------------------
(* Saving.  JSON.stringify followed by JSON.parse gives back every value    *)
(* the model holds (finite numbers, texts, booleans, arrays and objects     *)
(* without undefined members), so the stored text is kept as the value it   *)
(* parses to.  setItem is taken to succeed.                                 *)

\* String(alertSound)
StringOfBoolean(b) == IF b THEN "true" ELSE "false"

\* the object handed to saveSettings by the effect of the scalar settings
scalarData(st) ==
    [systemOn      |-> st.systemOn,
     autoMode      |-> st.autoMode,
     thresholdTemp |-> st.thresholdTemp,
     alertSound    |-> StringOfBoolean(st.alertSound),
     pollInterval  |-> st.pollInterval]

\* a slip: { ...data, ...existing }
saveSettings_ExistingWins(stored, data, d) ==
    LET existing == loadSettings(stored, d)
    IN  Json(Spread(data, IF existing.kind = "settings" THEN existing.value ELSE EmptyObject))

\* a slip: only the partial update is written
saveSettings_NoMerge(stored, data, d) == Json(data)

\* d is the draw of the loadSettings() call inside
saveSettings(stored, data, d) ==
    LET existing == loadSettings(stored, d)
    IN  Json(Spread(IF existing.kind = "settings" THEN existing.value ELSE EmptyObject, data))

-----------------------------------------------------------------------------
(* Startup: const saved = loadSettings(), the useState initialisers, and    *)
(* the three save effects, which all run once after the first render.       *)

\* a slip: the saved tapes are not looked at
initialTapes_Fresh(saved, d1, d2) == createInitialTapes(d1, d2)

\* saved?.tapes || createInitialTapes(): an array is truthy, also when empty
initialTapes(saved, d1, d2) ==
    IF saved.kind = "settings" /\ Has(saved.value, "tapes")
    THEN saved.value.tapes
    ELSE createInitialTapes(d1, d2)

\* a slip: the saved alerts are not looked at
initialAlerts_Fresh(saved) == generateAlerts

\* saved?.alerts || generateAlerts
initialAlerts(saved) ==
    IF saved.kind = "settings" /\ Has(saved.value, "alerts")
    THEN saved.value.alerts
    ELSE generateAlerts

\* saved?.key ?? default
OrElse(saved, key, default) ==
    IF saved.kind = "settings" /\ Has(saved.value, key) THEN saved.value[key] ELSE default

\* a slip: saved?.systemOn || true
initialSettings_SystemOnOr(saved) ==
    [systemOn      |-> OrElse(saved, "systemOn", TRUE) \/ TRUE,
     autoMode      |-> OrElse(saved, "autoMode", TRUE),
     thresholdTemp |-> OrElse(saved, "thresholdTemp", "5"),
     alertSound    |-> ~(OrElse(saved, "alertSound", "true") = "false"),
     pollInterval  |-> OrElse(saved, "pollInterval", "2")]

initialSettings(saved) ==
    [systemOn      |-> OrElse(saved, "systemOn", TRUE),
     autoMode      |-> OrElse(saved, "autoMode", TRUE),
     thresholdTemp |-> OrElse(saved, "thresholdTemp", "5"),
     \* saved?.alertSound === "false" ? false : true
     alertSound    |-> ~(OrElse(saved, "alertSound", "true") = "false"),
     pollInterval  |-> OrElse(saved, "pollInterval", "2")]

\* the effects of [tapes], of the scalar settings and of [alerts], in this order
mountSaves(stored, ts, al, st, d) ==
    saveSettings(
        saveSettings(
            saveSettings(stored, [tapes |-> ts], d),
            scalarData(st), d),
        [alerts |-> al], d)

\* Initial state: the store holds no blob, so useState takes
\* createInitialTapes(), generateAlerts and the default settings.
Init ==
    /\ boot = Absent
    /\ \E d1 \in SegDraws : \E d2 \in SegDraws \ {d1} :
          /\ parsed = loadSettings(boot, d1)
          /\ tapes = initialTapes(parsed, d1, d2)
          /\ alerts = initialAlerts(parsed)
          /\ settings = initialSettings(parsed)
          /\ raw = mountSaves(boot, tapes, alerts, settings, d1)
    /\ loads = 1
    /\ ticks = 0
    /\ steps = 0
    /\ issuedSegIds = SegIds(tapes)
    /\ issuedTapeIds = TapeIds(tapes)
    /\ pending = {}
    /\ queue = <<>>

-----------------------------------------------------------------------------
(* The command surface and the tick as actions: the update of the tapes    *)
(* followed by the save effect of [tapes].  Arguments are drawn from small  *)
(* sets; tape and segment ids that match nothing are included, the commands *)
(* then change nothing.                                                     *)

TapeArgs == {1, 2}
NewTapeArgs == {2, 3}
SegArgs == {12, 13, 14, 15, 16}
ValueArgs == {<<1, 5>>}
BulkArgs == {2}
PowerArgs == {100}
TargetArgs == {-10}
FieldArgs == {"length"}
TextArgs == {"30"}

\* Math.random() results of one tick, per segment id: the two ends of
\* [0, 1) and one value in between, in turn
TickDraws ==
    { [i \in 1..(12 + 4 * MaxSteps) |->
          IF i % 3 = 1 THEN 0 ELSE IF i % 3 = 2 THEN 999 ELSE 333] }

\* the draw of the loadSettings() call inside saveSettings; the tapes it
\* migrates are overwritten by the saved ones
SaveDraws == {CalmDraw}

\* the save effect of [tapes] runs after the update: every updater but the
\* refused removeTape returns a new array
Stored ==
    /\ \E d \in SaveDraws : raw' = saveSettings(raw, [tapes |-> tapes'], d)
    /\ UNCHANGED <<parsed, loads, alerts, settings, boot, pending, queue>>

\* the ids of the tapes and of the segments that an update appended
NewTapeIds(old, new) == {new[i].id : i \in (Len(old) + 1)..Len(new)}

NewSegIds(old, new) ==
    UNION { {new[i].segments[j].id :
                j \in (IF i <= Len(old) THEN Len(old[i].segments) + 1 ELSE 1)
                        ..Len(new[i].segments)} : i \in 1..Len(new) }

Issue == /\ issuedSegIds' = issuedSegIds \cup NewSegIds(tapes, tapes')
         /\ issuedTapeIds' = issuedTapeIds \cup NewTapeIds(tapes, tapes')

NoIssue == UNCHANGED <<issuedSegIds, issuedTapeIds>>

\* a command: one more step, no tick
Command == steps < MaxSteps /\ steps' = steps + 1 /\ UNCHANGED ticks

ToggleTape ==
    \E t \in TapeArgs :
        /\ tapes' = toggleTape(tapes, t)
        /\ Command /\ NoIssue /\ Stored

UpdateTapeField ==
    \E t \in {1}, f \in FieldArgs, v \in TextArgs :
        /\ tapes' = updateTapeField(tapes, t, f, v)
        /\ Command /\ NoIssue /\ Stored

AddTape ==
    \E d \in {WarnDraw} :
        /\ tapes' = addTape(tapes, d)
        /\ Issue
        /\ Command /\ Stored

RemoveTape ==
    \E t \in TapeArgs :
        /\ tapes' = removeTape(tapes, t)
        /\ Command /\ NoIssue /\ Stored

AddSegmentToTape ==
    \E t \in {2}, d \in {CalmDraw} :
        /\ tapes' = addSegmentToTape(tapes, t, d)
        /\ Issue
        /\ Command /\ Stored

RemoveSegmentFromTape ==
    \E t \in NewTapeArgs, s \in SegArgs :
        /\ tapes' = removeSegmentFromTape(tapes, t, s)
        /\ Command /\ NoIssue /\ Stored

ToggleSegment ==
    \E a \in ValueArgs :
        /\ tapes' = toggleSegment(tapes, a[1], a[2])
        /\ Command /\ NoIssue /\ Stored

SetSegPower ==
    \E a \in ValueArgs, p \in PowerArgs :
        /\ tapes' = setSegPower(tapes, a[1], a[2], p)
        /\ Command /\ NoIssue /\ Stored

SetSegTargetTemp ==
    \E a \in ValueArgs, v \in TargetArgs :
        /\ tapes' = setSegTargetTemp(tapes, a[1], a[2], v)
        /\ Command /\ NoIssue /\ Stored

EnableAll ==
    \E t \in BulkArgs :
        /\ tapes' = enableAllSegments(tapes, t)
        /\ Command /\ NoIssue /\ Stored

DisableAll ==
    \E t \in BulkArgs :
        /\ tapes' = disableAllSegments(tapes, t)
        /\ Command /\ NoIssue /\ Stored

Tick ==
    \E rnd \in TickDraws :
        /\ steps < MaxSteps
        /\ tapes' = tick(tapes, rnd)
        /\ ticks' = ticks + 1
        /\ steps' = steps + 1
        /\ NoIssue /\ Stored

Next ==
    \/ ToggleTape
    \/ UpdateTapeField
    \/ AddTape
    \/ RemoveTape
    \/ AddSegmentToTape
    \/ RemoveSegmentFromTape
    \/ ToggleSegment
    \/ SetSegPower
    \/ SetSegTargetTemp
    \/ EnableAll
    \/ DisableAll
    \/ Tick

Spec == Init /\ [][Next]_vars

\* setSegPower and setSegTargetTemp called with integers that the sliders
\* (0..100 in steps of 5, -10..30) cannot produce as well as ones they can
AnyPowerArgs == {-5, 0, 55, 100, 101}
AnyTargetArgs == {-11, -10, 0, 30, 31}
AnySegArgs == {<<1, 5>>, <<2, 12>>}

SetSegPowerAny ==
    \E a \in AnySegArgs, p \in AnyPowerArgs :
        /\ tapes' = setSegPower(tapes, a[1], a[2], p)
        /\ Command /\ NoIssue /\ Stored

SetSegTargetTempAny ==
    \E a \in AnySegArgs, v \in AnyTargetArgs :
        /\ tapes' = setSegTargetTemp(tapes, a[1], a[2], v)
        /\ Command /\ NoIssue /\ Stored

NextAnyArgs == SetSegPowerAny \/ SetSegTargetTempAny \/ AddSegmentToTape

SpecAnyArgs == Init /\ [][NextAnyArgs]_vars

\* only addTape and addSegmentToTape are called
NextAdds == AddTape \/ AddSegmentToTape

SpecAdds == Init /\ [][NextAdds]_vars

\* the commands that add, remove and switch segments, with the two that make
\* tapes to take segments from and switch tapes off
NextSegments ==
    \/ AddTape
    \/ ToggleTape
    \/ AddSegmentToTape
    \/ RemoveSegmentFromTape
    \/ ToggleSegment
    \/ EnableAll
    \/ DisableAll

SpecSegments == Init /\ [][NextSegments]_vars

-----------------------------------------------------------------------------
(* Loading a persisted blob.  The blobs are built from current-shape and    *)
(* older-shape pieces: segments with and without a sensors array, tapes     *)
(* with and without the fields added later, the legacy flat segment list.   *)

Garbage == [kind |-> "garbage"]

FullSeg(id, enabled) == createSegment(id, enabled, WarnDraw)

\* the Segment of the flat-list version: no sensors key (part_000:33-42)
BareSeg(id, enabled) == Without(FullSeg(id, enabled), "sensors")

LegacySegLists ==
    { <<>>,
      <<BareSeg(1, TRUE)>>,
      <<BareSeg(1, TRUE), BareSeg(2, FALSE)>>,
      <<FullSeg(1, TRUE)>>,
      <<FullSeg(1, TRUE), BareSeg(2, FALSE)>>,
      <<FullSeg(1, FALSE), FullSeg(2, TRUE)>> }

TapeSegLists == LegacySegLists \cup { <<[FullSeg(1, TRUE) EXCEPT !.sensors = <<>>]>> }

FullTape(id, segs, enabled) ==
    [createTape(id, 1, 0, WarnDraw) EXCEPT !.segments = segs, !.enabled = enabled]

\* a tape saved before coordinates, contractNumber, length, width and enabled existed
OldTape(id, segs) == [id |-> id, name |-> "Tape " \o ToString(id), segments |-> segs]

StoredTapeLists ==
    { <<>> }
    \cup { <<FullTape(1, sl, en)>> : sl \in TapeSegLists, en \in BOOLEAN }
    \cup { <<OldTape(1, sl)>> : sl \in TapeSegLists }
    \cup { <<Without(FullTape(1, <<>>, TRUE), "segments")>> }
    \cup { <<FullTape(1, <<FullSeg(1, TRUE)>>, FALSE),
             FullTape(2, <<FullSeg(2, FALSE), FullSeg(3, TRUE)>>, TRUE)>> }

ScalarGroups == { EmptyObject, [systemOn |-> FALSE, thresholdTemp |-> "7"] }

LegacySizes ==
    { EmptyObject,
      [tapeLength |-> "30", tapeWidth |-> "40"],
      [tapeLength |-> "", tapeWidth |-> "40"] }

Blobs ==
    { Spread(g, "tapes" :> tl) : g \in ScalarGroups, tl \in StoredTapeLists }
    \cup { Spread(Spread(g, z), "segments" :> sl) :
             g \in ScalarGroups, z \in LegacySizes, sl \in LegacySegLists }
    \cup { [tapes |-> <<FullTape(1, <<FullSeg(1, TRUE)>>, TRUE)>>, segments |-> <<BareSeg(1, TRUE)>>] }
    \cup { [systemOn |-> TRUE] }

InitLoad ==
    /\ raw \in {Json(b) : b \in Blobs} \cup {Absent, Garbage}
    /\ parsed = NullSettings
    /\ loads = 0
    /\ boot = raw
    /\ alerts = generateAlerts
    /\ settings = initialSettings(NullSettings)
    /\ tapes = createInitialTapes(WarnDraw, CalmDraw)
    /\ ticks = 0
    /\ steps = 0
    /\ issuedSegIds = SegIds(tapes)
    /\ issuedTapeIds = TapeIds(tapes)
    /\ pending = {}
    /\ queue = <<>>

Memory == UNCHANGED <<tapes, ticks, steps, issuedSegIds, issuedTapeIds, alerts, settings, boot,
                      pending, queue>>

\* const saved = loadSettings()
LoadSettings ==
    \E d \in SegDraws :
        /\ loads = 0
        /\ parsed' = loadSettings(raw, d)
        /\ loads' = 1
        /\ UNCHANGED raw /\ Memory

\* loadSettings applied to the blob that the previous load produced
LoadAgain ==
    \E d \in SegDraws :
        /\ 0 < loads /\ loads < MaxLoads
        /\ parsed.kind = "settings"
        /\ parsed' = loadSettings(Json(parsed.value), d)
        /\ loads' = loads + 1
        /\ UNCHANGED raw /\ Memory

NextLoad == LoadSettings \/ LoadAgain

SpecLoad == InitLoad /\ [][NextLoad]_vars

-----------------------------------------------------------------------------
(* A whole session: startup from whatever blob the store holds, commands    *)
(* on tapes, alerts and settings, each followed by its save effect, ticks,  *)
(* and a restart (the page is reloaded and starts from the stored blob).    *)

\* a JSON object whose tapes value is truthy and has no map method (a number,
\* a text, an object): parsed.tapes.map throws inside the try of loadSettings
TapesNotArray == [kind |-> "tapes-not-array"]

AckedAlerts == [i \in 1..2 |-> [generateAlerts[i] EXCEPT !.acknowledged = (i = 1)]]

SessionBlobs ==
    { [tapes |-> <<>>],
      [tapes |-> <<[id |-> 1]>>],
      [tapes |-> <<Without(FullTape(1, <<>>, TRUE), "segments")>>],
      [tapes |-> <<FullTape(1, <<[FullSeg(1, TRUE) EXCEPT !.sensors = <<>>]>>, TRUE)>>],
      [segments |-> <<>>],
      [segments |-> <<BareSeg(1, TRUE), BareSeg(2, FALSE)>>, tapeLength |-> "30",
       alerts |-> <<>>],
      [tapes |-> <<FullTape(1, <<FullSeg(1, TRUE)>>, FALSE),
                   FullTape(2, <<FullSeg(2, FALSE), FullSeg(3, TRUE)>>, TRUE)>>,
       alerts |-> AckedAlerts, systemOn |-> FALSE, autoMode |-> FALSE,
       thresholdTemp |-> "7", alertSound |-> "false", pollInterval |-> "5"] }

SessionStores == {Json(b) : b \in SessionBlobs} \cup {Absent, Garbage, TapesNotArray}

InitSession ==
    /\ boot \in SessionStores
    /\ \E d \in SegDraws :
          /\ parsed = loadSettings(boot, d)
          /\ tapes = initialTapes(parsed, WarnDraw, CalmDraw)
          /\ alerts = initialAlerts(parsed)
          /\ settings = initialSettings(parsed)
          /\ raw = mountSaves(boot, tapes, alerts, settings, d)
    /\ loads = 1
    /\ ticks = 0
    /\ steps = 0
    /\ issuedSegIds = SegIds(tapes)
    /\ issuedTapeIds = TapeIds(tapes)
    /\ pending = {}
    /\ queue = <<>>

\* the page is loaded again: the component starts from the stored blob
Restart ==
    \E d \in SegDraws :
        /\ steps < MaxSteps /\ loads < MaxLoads
        /\ boot' = raw
        /\ parsed' = loadSettings(raw, d)
        /\ tapes' = initialTapes(parsed', WarnDraw, CalmDraw)
        /\ alerts' = initialAlerts(parsed')
        /\ settings' = initialSettings(parsed')
        /\ raw' = mountSaves(raw, tapes', alerts', settings', d)
        /\ loads' = loads + 1
        /\ steps' = steps + 1
        /\ issuedSegIds' = SegIds(tapes')
        /\ issuedTapeIds' = TapeIds(tapes')
        /\ UNCHANGED <<ticks, pending, queue>>

\* an unacknowledged alert, an acknowledged one, an id no alert has
AlertArgs == {1, 3, 7}

InMemory == UNCHANGED <<tapes, ticks, issuedSegIds, issuedTapeIds, parsed, loads, boot,
                        pending, queue>>

AcknowledgeAlert ==
    \E id \in AlertArgs, d \in SaveDraws :
        /\ steps < MaxSteps /\ steps' = steps + 1
        /\ alerts' = acknowledgeAlert(alerts, id)
        /\ raw' = saveSettings(raw, [alerts |-> alerts'], d)
        /\ UNCHANGED settings /\ InMemory

\* a setter of a scalar setting, followed by the save effect of the settings
SetSetting(key, value) ==
    \E d \in SaveDraws :
        /\ steps < MaxSteps /\ steps' = steps + 1
        /\ settings' = [settings EXCEPT ![key] = value]
        /\ raw' = saveSettings(raw, scalarData(settings'), d)
        /\ UNCHANGED alerts /\ InMemory

SetSystemOn == SetSetting("systemOn", FALSE)

SetAutoMode == SetSetting("autoMode", FALSE)

SetAlertSound == \E b \in BOOLEAN : SetSetting("alertSound", b)

SetThresholdTemp == SetSetting("thresholdTemp", "")

SetPollInterval == SetSetting("pollInterval", "10")

NextSession ==
    \/ ToggleTape
    \/ Tick
    \/ AcknowledgeAlert
    \/ SetSystemOn
    \/ SetAutoMode
    \/ SetAlertSound
    \/ SetThresholdTemp
    \/ SetPollInterval
    \/ Restart

SpecSession == InitSession /\ [][NextSession]_vars

-----------------------------------------------------------------------------
(* The save effects one by one: after a render the effects of the groups    *)
(* that changed run one after the other, each a saveSettings call of its    *)
(* own.  The order in which they run is left open.                          *)

Groups == {"tapes", "settings", "alerts"}

\* the object each effect hands to saveSettings (Index.tsx:336, 340, 344)
Partial(g, ts, st, al) ==
    IF g = "tapes" THEN [tapes |-> ts]
    ELSE IF g = "settings" THEN scalarData(st)
    ELSE [alerts |-> al]

\* a slip: the save merges into the blob read at startup
readStore_Snapshot(current, snapshot) == snapshot

\* localStorage.getItem inside the save: what the store holds at that moment
readStore(current, snapshot) == current

SaveStores == {Json(b) : b \in Blobs \cup SessionBlobs} \cup {Absent, Garbage, TapesNotArray}

\* the first render: state from the stored blob, all three effects to run
InitSave ==
    /\ boot \in SaveStores
    /\ raw = boot
    /\ \E d \in SegDraws :
          /\ parsed = loadSettings(boot, d)
          /\ tapes = initialTapes(parsed, WarnDraw, CalmDraw)
          /\ alerts = initialAlerts(parsed)
          /\ settings = initialSettings(parsed)
    /\ loads = 1
    /\ ticks = 0
    /\ steps = 0
    /\ issuedSegIds = SegIds(tapes)
    /\ issuedTapeIds = TapeIds(tapes)
    /\ pending = Groups
    /\ queue = <<>>

\* one effect runs
SaveEffect(g) ==
    \E d \in SegDraws :
        /\ g \in pending
        /\ raw' = saveSettings(readStore(raw, boot), Partial(g, tapes, settings, alerts), d)
        /\ pending' = pending \ {g}
        /\ UNCHANGED <<tapes, ticks, steps, issuedSegIds, issuedTapeIds, parsed, loads,
                       alerts, settings, boot, queue>>

SaveTapes == SaveEffect("tapes")

SaveScalars == SaveEffect("settings")

SaveAlerts == SaveEffect("alerts")

\* a state change of one group; its effect is due after the render
Changed(g) ==
    /\ steps < MaxSteps /\ steps' = steps + 1
    /\ pending' = pending \cup {g}
    /\ UNCHANGED <<issuedSegIds, issuedTapeIds, raw, parsed, loads, boot, queue>>

ChangeTapes ==
    \E rnd \in TickDraws :
        /\ tapes' = tick(tapes, rnd)
        /\ ticks' = ticks + 1
        /\ UNCHANGED <<alerts, settings>> /\ Changed("tapes")

ChangeScalars ==
    /\ settings' = [settings EXCEPT !.systemOn = ~@]
    /\ UNCHANGED <<tapes, alerts, ticks>> /\ Changed("settings")

ChangeAlerts ==
    /\ alerts' = acknowledgeAlert(alerts, 2)
    /\ UNCHANGED <<tapes, settings, ticks>> /\ Changed("alerts")

NextSave ==
    \/ SaveTapes
    \/ SaveScalars
    \/ SaveAlerts
    \/ ChangeTapes
    \/ ChangeScalars
    \/ ChangeAlerts

SpecSave == InitSave /\ [][NextSave]_vars

-----------------------------------------------------------------------------
(* A turn with several updates: every handler and the interval callback     *)
(* hand setTapes an updater, prev => ..., and the updaters queued since the *)
(* last render are run in the order they were queued, each on the result    *)
(* of the one before; the render that follows runs the [tapes] save effect  *)
(* once.                                                                    *)

\* a queued updater: the handler that made it and the arguments it closed over
Updater(name, t, sg, v) == [op |-> name, tapeId |-> t, segId |-> sg, value |-> v]

\* the body of the updater u, run on prev
applyUpdater(prev, u, rnd, d) ==
    CASE u.op = "tick"                  -> tick(prev, rnd)
      [] u.op = "setSegPower"           -> setSegPower(prev, u.tapeId, u.segId, u.value)
      [] u.op = "setSegTargetTemp"      -> setSegTargetTemp(prev, u.tapeId, u.segId, u.value)
      [] u.op = "toggleSegment"         -> toggleSegment(prev, u.tapeId, u.segId)
      [] u.op = "addSegmentToTape"      -> addSegmentToTape(prev, u.tapeId, d)
      [] u.op = "removeSegmentFromTape" -> removeSegmentFromTape(prev, u.tapeId, u.segId)

RECURSIVE applyQueue(_, _, _, _)

\* a slip: the handlers compute from the tapes of the last render,
\* setTapes(tapes.map(...)), so the update queued last overwrites the others
applyQueue_Stale(prev, q, rnd, d) == applyUpdater(prev, q[Len(q)], rnd, d)

\* the queued updaters run in order, each on the result of the one before
applyQueue(prev, q, rnd, d) ==
    IF q = <<>> THEN prev
    ELSE applyQueue(applyUpdater(prev, Head(q), rnd, d), Tail(q), rnd, d)

RECURSIVE issuedInQueue(_, _, _, _)
\* the segment ids given out while the queue is run
issuedInQueue(prev, q, rnd, d) ==
    IF q = <<>> THEN {}
    ELSE LET next == applyUpdater(prev, Head(q), rnd, d)
         IN  NewSegIds(prev, next) \cup issuedInQueue(next, Tail(q), rnd, d)

TurnRemoveArgs == {<<2, 12>>}

\* an updater is queued; nothing is computed before the render
Queued(u) ==
    /\ steps < MaxSteps /\ steps' = steps + 1
    /\ queue' = Append(queue, u)
    /\ UNCHANGED <<tapes, ticks, issuedSegIds, issuedTapeIds, raw, parsed, loads,
                   alerts, settings, boot, pending>>

QueueTick == Queued(Updater("tick", 0, 0, 0))

QueueSetSegPower ==
    \E a \in ValueArgs, p \in PowerArgs : Queued(Updater("setSegPower", a[1], a[2], p))

QueueSetSegTargetTemp ==
    \E a \in ValueArgs, v \in TargetArgs : Queued(Updater("setSegTargetTemp", a[1], a[2], v))

QueueToggleSegment ==
    \E a \in ValueArgs : Queued(Updater("toggleSegment", a[1], a[2], 0))

QueueAddSegmentToTape ==
    \E t \in BulkArgs : Queued(Updater("addSegmentToTape", t, 0, 0))

QueueRemoveSegmentFromTape ==
    \E a \in TurnRemoveArgs : Queued(Updater("removeSegmentFromTape", a[1], a[2], 0))

\* the render: the queue is run, then the save effect of [tapes]
Render ==
    \E rnd \in TickDraws, d \in SaveDraws :
        /\ queue # <<>>
        /\ steps < MaxSteps /\ steps' = steps + 1
        /\ tapes' = applyQueue(tapes, queue, rnd, d)
        /\ queue' = <<>>
        /\ ticks' = ticks + Cardinality({i \in 1..Len(queue) : queue[i].op = "tick"})
        /\ issuedSegIds' = issuedSegIds \cup issuedInQueue(tapes, queue, rnd, d)
        /\ raw' = saveSettings(raw, [tapes |-> tapes'], d)
        /\ UNCHANGED <<issuedTapeIds, parsed, loads, alerts, settings, boot, pending>>

NextTurn ==
    \/ QueueTick
    \/ QueueSetSegPower
    \/ QueueSetSegTargetTemp
    \/ QueueToggleSegment
    \/ QueueAddSegmentToTape
    \/ QueueRemoveSegmentFromTape
    \/ Render

SpecTurn == Init /\ [][NextTurn]_vars

-----------------------------------------------------------------------------
(* Properties *)

\* effective-enabled: the segment's switch and its tape's switch are both on
Effective(t, s) == s.enabled /\ t.enabled

effectiveSegments(ts) ==
    Flatten([i \in 1..Len(ts) |->
                IF ts[i].enabled THEN SelectSeq(ts[i].segments, LAMBDA s : s.enabled)
                ELSE <<>>])

SameShape(a, b) ==
    /\ Len(a) = Len(b)
    /\ \A i \in 1..Len(a) : Len(a[i].segments) = Len(b[i].segments)

\* C1: the three header metrics are computed over exactly the segments with
\* segment.enabled AND tape.enabled; an enabled segment of a disabled tape
\* contributes to none of them.
C1_EffectiveEnabledMetrics ==
    /\ activeCount(tapes) = Len(effectiveSegments(tapes))
    /\ avgTemp(tapes) = MeanTempText(effectiveSegments(tapes))
    /\ totalPower(tapes) = PowerText(effectiveSegments(tapes))

\* C2: there is always at least one tape and every tape has at least one
\* segment; removeTape on the only tape and removeSegmentFromTape on a tape's
\* only segment return the state unchanged.
C2_NonEmpty ==
    /\ Len(tapes) >= 1
    /\ \A i \in 1..Len(tapes) : Len(tapes[i].segments) >= 1
    /\ Len(tapes) = 1 => removeTape(tapes, tapes[1].id) = tapes
    /\ \A i \in 1..Len(tapes) :
          Len(tapes[i].segments) = 1 =>
              removeSegmentFromTape(tapes, tapes[i].id, tapes[i].segments[1].id) = tapes

\* a tape is down to its last segment and one more step, such as the
\* refused removal of that segment, has run
C2_Witness ==
    \E i \in 1..Len(tapes) :
        /\ Len(tapes[i].segments) = 1
        /\ tapes[i].segments[1].id \in SegArgs
        /\ steps = MaxSteps

\* C3: no two tapes share an id and no two segments, across all tapes, share
\* an id.
C3_UniqueIds ==
    /\ \A i, j \in 1..Len(tapes) : tapes[i].id = tapes[j].id => i = j
    /\ LET all == allSegments(tapes)
       IN  \A i, j \in 1..Len(all) : all[i].id = all[j].id => i = j

\* removals and additions have been interleaved
C3_Witness ==
    /\ issuedSegIds \ SegIds(tapes) # {}
    /\ \E id \in SegIds(tapes) : id > 12
    /\ \E id \in TapeIds(tapes) : id > 2
    /\ Len(tapes) = 2

\* C4: when only addTape and addSegmentToTape are called, every new tape id
\* is greater than every tape id given out before, and every new segment id
\* is greater than every segment id given out before.
C4_NewIdsGreater ==
    [][ /\ \A id \in NewSegIds(tapes, tapes') : \A old \in issuedSegIds : id > old
        /\ \A id \in NewTapeIds(tapes, tapes') : \A old \in issuedTapeIds : id > old ]_vars

\* a tape and a segment have both been added
C4_Witness ==
    /\ Len(tapes) >= 3
    /\ Len(tapes[2].segments) > 6
    /\ Cardinality(issuedSegIds) >= 12 + 4 + 1

\* C5: a segment id that was given out once is never given to a segment
\* created later.
C5_SegIdsNeverReused ==
    [][ \A id \in NewSegIds(tapes, tapes') : id \notin issuedSegIds ]_vars

\* C6: every segment has status off exactly when it is disabled.
C6_OffIffDisabled ==
    \A i \in 1..Len(tapes) : \A j \in 1..Len(tapes[i].segments) :
        LET s == tapes[i].segments[j]
        IN  (s.status = "off") <=> (s.enabled = FALSE)

\* a segment has been switched by toggleSegment and a segment has been added
C6_Witness ==
    /\ \E i \in 1..Len(tapes) : \E j \in 1..Len(tapes[i].segments) :
          LET s == tapes[i].segments[j]
          IN  s.id = 5 /\ ~s.enabled
    /\ \E id \in SegIds(tapes) : id > 12

C8_TickSkipsIneffective ==
    [][ ticks' = ticks + 1 =>
          /\ SameShape(tapes, tapes')
          /\ \A i \in 1..Len(tapes) : \A j \in 1..Len(tapes[i].segments) :
                ~Effective(tapes[i], tapes[i].segments[j]) =>
                    tapes'[i].segments[j] = tapes[i].segments[j] ]_vars

\* ticks have run while an enabled segment sat in a disabled tape, and the
\* segment still shows the temperature it was created with
C8_Witness ==
    /\ ticks >= 2
    /\ \E i \in 1..Len(tapes) : \E j \in 1..Len(tapes[i].segments) :
          LET s == tapes[i].segments[j]
          IN  /\ ~tapes[i].enabled
              /\ s.enabled
              /\ s.temperature \in {createSegment(s.id, TRUE, d).temperature : d \in SegDraws}

\* a blob of the current shape: a tapes array whose tapes carry every field
\* and whose segments all carry a sensors array
CurrentShape(v) ==
    /\ Has(v, "tapes")
    /\ \A i \in 1..Len(v.tapes) :
          /\ \A k \in {"coordinates", "contractNumber", "length", "width", "enabled", "segments"} :
                Has(v.tapes[i], k)
          /\ \A j \in 1..Len(v.tapes[i].segments) : Has(v.tapes[i].segments[j], "sensors")

\* C9: loading a current-shape blob returns it unchanged, and so does
\* loading the result again.
C9_MigrationIdempotent ==
    (raw.kind = "json" /\ loads >= 1) =>
        (CurrentShape(raw.value) => parsed = Settings(raw.value))

\* a current-shape blob with a disabled tape has been loaded twice
C9_Witness ==
    /\ loads = 2
    /\ raw.kind = "json"
    /\ CurrentShape(raw.value)
    /\ \E i \in 1..Len(raw.value.tapes) :
          ~raw.value.tapes[i].enabled /\ Len(raw.value.tapes[i].segments) > 0

\* a legacy blob: a top-level segments list and no tapes
LegacyShape(v) == Has(v, "segments") /\ ~Has(v, "tapes")

\* C10: loading a legacy blob gives exactly one tape (id 1, enabled, length
\* and width from tapeLength and tapeWidth or "24" and "50") holding the
\* legacy segments in order, each with a non-empty sensors array, without the
\* segments key, and with no empty tapes list, tape or sensors list.
C10_LegacyMigration ==
    (raw.kind = "json" /\ loads = 1) =>
        (LegacyShape(raw.value) =>
            /\ parsed.kind = "settings"
            /\ ~Has(parsed.value, "segments")
            /\ Has(parsed.value, "tapes")
            /\ Len(parsed.value.tapes) = 1
            /\ LET t   == parsed.value.tapes[1]
                   old == raw.value.segments
               IN  /\ t.id = 1
                   /\ t.enabled = TRUE
                   /\ t.length = (IF Has(raw.value, "tapeLength") /\ raw.value.tapeLength # ""
                                  THEN raw.value.tapeLength ELSE "24")
                   /\ t.width = (IF Has(raw.value, "tapeWidth") /\ raw.value.tapeWidth # ""
                                 THEN raw.value.tapeWidth ELSE "50")
                   /\ Len(t.segments) = Len(old)
                   /\ \A j \in 1..Len(old) :
                         /\ Without(t.segments[j], "sensors") = Without(old[j], "sensors")
                         /\ Has(t.segments[j], "sensors")
                         /\ Len(t.segments[j].sensors) >= 1
                   /\ Len(t.segments) >= 1)

\* C11: acknowledging the same alert id twice gives the same alerts list as
\* acknowledging it once, and acknowledging an id that no alert has, or whose
\* alerts are all acknowledged already, gives the alerts list back unchanged.
C11_AcknowledgeIdempotent ==
    \A id \in 0..8 :
        LET once == acknowledgeAlert(alerts, id)
        IN  /\ acknowledgeAlert(once, id) = once
            /\ (\A i \in 1..Len(alerts) : alerts[i].id = id => alerts[i].acknowledged = TRUE)
                   => once = alerts

\* alert 1, which starts unacknowledged, has been acknowledged while alert 2
\* is still open
C11_Witness ==
    /\ boot = Absent
    /\ Len(alerts) = 5
    /\ alerts[1].id = 1 /\ alerts[1].acknowledged
    /\ alerts[2].id = 2 /\ ~alerts[2].acknowledged

\* C12: in every step (command, tick, save, restart from the stored blob) the
\* alerts list keeps its length and every alert keeps its id, timestamp,
\* severity and message, and an alert that is acknowledged stays so.
C12_AcknowledgedStays ==
    [][ /\ Len(alerts') = Len(alerts)
        /\ \A i \in 1..Len(alerts) :
              /\ Without(alerts'[i], "acknowledged") = Without(alerts[i], "acknowledged")
              /\ alerts[i].acknowledged => alerts'[i].acknowledged ]_vars

\* alert 1 of the generated list was acknowledged, and the session has since
\* restarted from the stored blob
C12_Witness ==
    /\ loads = 2
    /\ Len(alerts) = 5
    /\ alerts[1].acknowledged
    /\ parsed.kind = "settings" /\ parsed.value.alerts[1].acknowledged
    /\ ticks > 0

\* a tape record carries at least an id and a name
TapeRecord(t) == Has(t, "id") /\ Has(t, "name")

\* a blob that is absent, not parsable, or whose tapes value is not a list
\* of tape records
Malformed(b) ==
    \/ b.kind \in {"absent", "garbage", "tapes-not-array"}
    \/ /\ b.kind = "json"
       /\ Has(b.value, "tapes")
       /\ \E i \in 1..Len(b.value.tapes) : ~TapeRecord(b.value.tapes[i])

\* two enabled tapes with ids 1 and 2 holding segments 1-6 and 7-12
DefaultSystem(ts) ==
    /\ Len(ts) = 2
    /\ \A i \in 1..2 :
          /\ ts[i].id = i
          /\ ts[i].enabled
          /\ [j \in 1..Len(ts[i].segments) |-> ts[i].segments[j].id]
                = [j \in 1..6 |-> 6 * (i - 1) + j]

\* C13: when the blob found at startup is absent, not parsable, or has a
\* tapes value that is not a list of tape records, loadSettings returns null
\* and the session starts with the default system.
C13_LoadNeverFails ==
    (steps = 0 /\ Malformed(boot)) =>
        /\ parsed = NullSettings
        /\ DefaultSystem(tapes)

\* C14: after startup from a blob that loadSettings accepts, there is at
\* least one tape, every tape has at least one segment and every segment has
\* at least one sensor.
C14_StartupNonEmpty ==
    (steps = 0 /\ parsed.kind = "settings") =>
        /\ Len(tapes) >= 1
        /\ \A i \in 1..Len(tapes) :
              /\ Len(tapes[i].segments) >= 1
              /\ \A j \in 1..Len(tapes[i].segments) : Len(tapes[i].segments[j].sensors) >= 1

\* C15: after every command, tick, settings change and acknowledgement,
\* once its save effect has run, the stored blob holds the in-memory tapes,
\* the in-memory alerts and the in-memory scalar settings (alertSound as the
\* text of the boolean, which is how it is stored).
C15_WriteThrough ==
    /\ raw.kind = "json"
    /\ Has(raw.value, "tapes") /\ raw.value.tapes = tapes
    /\ Has(raw.value, "alerts") /\ raw.value.alerts = alerts
    /\ \A k \in {"systemOn", "autoMode", "thresholdTemp", "pollInterval"} :
          Has(raw.value, k) /\ raw.value[k] = settings[k]
    /\ Has(raw.value, "alertSound")
    /\ raw.value.alertSound = (IF settings.alertSound THEN "true" ELSE "false")

\* a tick, an acknowledgement of alert 1 and a settings change have run
C15_Witness ==
    /\ boot = Absent
    /\ ticks > 0
    /\ alerts[1].acknowledged
    /\ settings.systemOn = FALSE
    /\ steps >= 3

\* C16: what is in memory has been saved, and loading the stored blob and
\* initialising the state from it gives back the same tapes, alerts, systemOn,
\* autoMode, thresholdTemp, alertSound and pollInterval.
C16_RoundTrip ==
    \A d \in SegDraws :
        LET saved == loadSettings(raw, d)
        IN  /\ saved.kind = "settings"
            /\ initialTapes(saved, WarnDraw, CalmDraw) = tapes
            /\ initialAlerts(saved) = alerts
            /\ initialSettings(saved) = settings

\* systemOn and alertSound were switched off, a tick has run, and the session
\* has restarted from the stored blob
C16_Witness ==
    /\ loads = 2
    /\ settings.systemOn = FALSE
    /\ settings.alertSound = FALSE
    /\ settings.thresholdTemp = ""
    /\ ticks > 0

\* C17: toggleTape flips the enabled flag of the tape with the given id and
\* nothing else: that tape's other fields and its segments, and every other
\* tape, are as before; toggling the same tape again gives the state back.
C17_ToggleTapeFrame ==
    \A id \in TapeIds(tapes) \cup {0} :
        LET new == toggleTape(tapes, id)
        IN  /\ Len(new) = Len(tapes)
            /\ \A i \in 1..Len(tapes) :
                  IF tapes[i].id = id
                  THEN /\ new[i].enabled = ~tapes[i].enabled
                       /\ Without(new[i], "enabled") = Without(tapes[i], "enabled")
                  ELSE new[i] = tapes[i]
            /\ toggleTape(new, id) = tapes

\* tape 2 has been switched off while its first five segments are enabled
C17_Witness ==
    /\ Len(tapes) = 2
    /\ tapes[1].id = 1 /\ tapes[1].enabled
    /\ tapes[2].id = 2 /\ ~tapes[2].enabled
    /\ Len(tapes[2].segments) = 6
    /\ \A j \in 1..5 : tapes[2].segments[j].enabled /\ tapes[2].segments[j].status # "off"

\* the (id, status) pairs of all segments
StatusById(ts) ==
    UNION { {<<ts[i].segments[j].id, ts[i].segments[j].status>> :
                j \in 1..Len(ts[i].segments)} : i \in 1..Len(ts) }

\* C18: a step that changes the status of a segment that exists before and
\* after it is a toggleSegment, an enable-all or a disable-all; ticks,
\* toggleTape, setSegPower, setSegTargetTemp, updateTapeField, additions and
\* removals leave the status of every existing segment as it was.
C18_StatusOnlyBySwitching ==
    [][ LET old == StatusById(tapes)
            new == StatusById(tapes')
            \* no segment added or removed: segments are compared in place
            inPlace ==
                \E i \in 1..Len(tapes) :
                    /\ tapes'[i].segments # tapes[i].segments
                    /\ \E j \in 1..Len(tapes[i].segments) :
                          LET s == tapes[i].segments[j]
                              t == tapes'[i].segments[j]
                          IN  t # s /\ (t.id # s.id \/ t.status # s.status)
            byId == \E p \in old : p \notin new /\ \E q \in new : q[1] = p[1]
            changed ==
                /\ tapes' # tapes
                /\ IF SameShape(tapes, tapes') THEN inPlace ELSE byId
        IN  changed
            => \/ \E a \in ValueArgs : tapes' = toggleSegment(tapes, a[1], a[2])
               \/ \E t \in BulkArgs : tapes' = enableAllSegments(tapes, t)
               \/ \E t \in BulkArgs : tapes' = disableAllSegments(tapes, t) ]_vars

\* ticks have moved the temperature of a segment that still shows the
\* warning status it was created with, above its target temperature or not
C18_Witness ==
    /\ ticks >= 2
    /\ \E i \in 1..Len(tapes) : \E j \in 1..Len(tapes[i].segments) :
          LET s == tapes[i].segments[j]
          IN  /\ s.status = "warning"
              /\ s.temperature < s.targetTemp * 10000
              /\ s.temperature \notin {createSegment(s.id, TRUE, d).temperature : d \in SegDraws}
    /\ \E i \in 1..Len(tapes) : \E j \in 1..Len(tapes[i].segments) :
          tapes[i].segments[j].power = 100

\* C19: every segment's power is in 0..100 and its target temperature is in
\* -10..30, whatever integers setSegPower and setSegTargetTemp are given.
C19_RangesKept ==
    \A i \in 1..Len(tapes) : \A j \in 1..Len(tapes[i].segments) :
        /\ tapes[i].segments[j].power \in 0..100
        /\ tapes[i].segments[j].targetTemp \in -10..30

\* the largest value of a non-empty set of numbers
MaxIn(S) == CHOOSE m \in S : \A x \in S : x <= m

\* C20: addTape appends one tape and leaves the others as they are; the new
\* tape has id max(tape ids) + 1, is enabled and holds 4 segments with the
\* ids max(segment ids) + 1 .. + 4, the first 3 enabled and the last disabled
\* with status off; from tapes 1 and 2 with segments 1-12 it is tape 3 with
\* segments 13-16.
C20_AddTape ==
    \A d \in SegDraws :
        LET new   == addTape(tapes, d)
            t     == new[Len(new)]
            first == MaxIn(SegIds(tapes) \cup {0}) + 1
        IN  /\ Len(new) = Len(tapes) + 1
            /\ SubSeq(new, 1, Len(tapes)) = tapes
            /\ t.id = MaxIn(TapeIds(tapes) \cup {0}) + 1
            /\ t.enabled
            /\ Len(t.segments) = 4
            /\ \A j \in 1..4 :
                  /\ t.segments[j].id = first + j - 1
                  /\ t.segments[j].enabled = (j <= 3)
                  /\ (t.segments[j].status = "off") = (j = 4)
            /\ (TapeIds(tapes) = {1, 2} /\ SegIds(tapes) = 1..12) =>
                  (t.id = 3 /\ {s.id : s \in Range(t.segments)} = 13..16)

\* addTape has added tape 3 with segments 13-16 to the default system, and
\* again a tape after tape 2 and a segment were removed
C20_Witness ==
    /\ Len(tapes) = 3
    /\ tapes[2].id = 3
    /\ [j \in 1..Len(tapes[2].segments) |-> tapes[2].segments[j].id] = <<13, 14, 15>>
    /\ tapes[3].id = 4
    /\ tapes[3].segments[1].id = 16

\* C21: addSegmentToTape(tapeId) appends exactly one segment to the end of
\* the tape with that id; the new segment has id max(all segment ids) + 1,
\* is disabled and has status off; the tape's earlier segments, its other
\* fields and every other tape are as before; an id that no tape has leaves
\* the tapes as they were.
C21_AddSegment ==
    \A d \in SegDraws : \A tapeId \in TapeIds(tapes) \cup {0, 99} :
        LET new == addSegmentToTape(tapes, tapeId, d)
        IN  /\ Len(new) = Len(tapes)
            /\ \A i \in 1..Len(tapes) :
                  IF tapes[i].id = tapeId
                  THEN LET old  == tapes[i].segments
                           segs == new[i].segments
                           s    == segs[Len(segs)]
                       IN  /\ Len(segs) = Len(old) + 1
                           /\ SubSeq(segs, 1, Len(old)) = old
                           /\ s.id = MaxIn(SegIds(tapes) \cup {0}) + 1
                           /\ s.enabled = FALSE
                           /\ s.status = "off"
                           /\ Without(new[i], "segments") = Without(tapes[i], "segments")
                  ELSE new[i] = tapes[i]
            /\ (tapeId \notin TapeIds(tapes)) => new = tapes

\* addSegmentToTape has appended segment 13, disabled and off, to the six
\* segments of tape 2 while tape 1 kept its six
C21_Witness ==
    /\ Len(tapes) = 2
    /\ tapes[2].id = 2
    /\ Len(tapes[1].segments) = 6
    /\ Len(tapes[2].segments) = 7
    /\ tapes[2].segments[7].id = 13
    /\ ~tapes[2].segments[7].enabled
    /\ tapes[2].segments[7].status = "off"

\* C22: removeSegmentFromTape(tapeId, segmentId), on a tape with more than
\* one segment one of which has that id, removes that segment and nothing
\* else: the tape has one segment less, the id is gone, the segments before
\* it and after it keep their order and values, the tape's other fields and
\* every other tape are as before; on a tape with a single segment it
\* leaves that segment in place.
C22_RemoveSegment ==
    \A i \in 1..Len(tapes) :
        LET old == tapes[i].segments
        IN  \A k \in 1..Len(old) :
                LET new  == removeSegmentFromTape(tapes, tapes[i].id, old[k].id)
                    segs == new[i].segments
                IN  /\ Len(new) = Len(tapes)
                    /\ \A h \in 1..Len(tapes) : h # i => new[h] = tapes[h]
                    /\ Without(new[i], "segments") = Without(tapes[i], "segments")
                    /\ IF Len(old) > 1
                       THEN /\ Len(segs) = Len(old) - 1
                            /\ \A j \in 1..Len(segs) : segs[j].id # old[k].id
                            /\ \A j \in 1..Len(segs) :
                                  segs[j] = IF j < k THEN old[j] ELSE old[j + 1]
                       ELSE segs = old

\* segment 12 has been removed from the six segments of tape 2, which keeps
\* 7-11 in order, and tape 3 has been taken down to its last segment
C22_Witness ==
    /\ Len(tapes) = 3
    /\ [j \in 1..Len(tapes[2].segments) |-> tapes[2].segments[j].id] = <<7, 8, 9, 10, 11>>
    /\ [j \in 1..Len(tapes[3].segments) |-> tapes[3].segments[j].id] = <<16>>

\* C23: toggleSegment(tapeId, segmentId) flips enabled of that one segment
\* and sets its status to normal when it becomes enabled and to off when it
\* becomes disabled; its id, name, power, temperature, targetTemp and
\* sensors, every other segment, every other tape and the owning tape's own
\* fields (its enabled flag among them) are as before.
C23_ToggleSegment ==
    \A i \in 1..Len(tapes) : \A k \in 1..Len(tapes[i].segments) :
        LET old == tapes[i].segments[k]
            new == toggleSegment(tapes, tapes[i].id, old.id)
            s   == new[i].segments[k]
        IN  /\ SameShape(tapes, new)
            /\ s.enabled = ~old.enabled
            /\ s.status = (IF s.enabled THEN "normal" ELSE "off")
            /\ DOMAIN s = DOMAIN old
            /\ \A f \in DOMAIN old \ {"enabled", "status"} : s[f] = old[f]
            /\ \A h \in 1..Len(tapes) :
                  /\ Without(new[h], "segments") = Without(tapes[h], "segments")
                  /\ \A j \in 1..Len(tapes[h].segments) :
                        (h # i \/ j # k) => new[h].segments[j] = tapes[h].segments[j]

\* segment 5 of tape 1 has been switched off and has status off, with the
\* power it was created with, while tape 1 is still enabled and segment 1
\* keeps its warning
C23_Witness ==
    /\ tapes[1].id = 1
    /\ tapes[1].enabled
    /\ tapes[1].segments[5].id = 5
    /\ ~tapes[1].segments[5].enabled
    /\ tapes[1].segments[5].status = "off"
    /\ tapes[1].segments[5].power = 89
    /\ tapes[1].segments[1].status = "warning"

\* the segments of new are those of old with enabled and status set as given
\* in the tape at position i, and equal to those of old everywhere else
BulkSet(old, new, i, enabled, status) ==
    /\ SameShape(old, new)
    /\ \A h \in 1..Len(old) :
          /\ Without(new[h], "segments") = Without(old[h], "segments")
          /\ \A j \in 1..Len(old[h].segments) :
                LET s == new[h].segments[j]
                IN  IF h = i
                    THEN /\ s.enabled = enabled
                         /\ s.status = status
                         /\ DOMAIN s = DOMAIN old[h].segments[j]
                         /\ \A f \in DOMAIN s \ {"enabled", "status"} :
                               s[f] = old[h].segments[j][f]
                    ELSE s = old[h].segments[j]

\* C24: "enable all" on a tape leaves each of its segments enabled with
\* status normal and "disable all" leaves each of them disabled with status
\* off, whatever they were before; the other fields of these segments, the
\* tape's own enabled flag and every other tape are as before, and pressing
\* the same button a second time changes nothing more.
C24_BulkButtons ==
    \A i \in 1..Len(tapes) :
        LET on  == enableAllSegments(tapes, tapes[i].id)
            off == disableAllSegments(tapes, tapes[i].id)
        IN  /\ BulkSet(tapes, on, i, TRUE, "normal")
            /\ BulkSet(tapes, off, i, FALSE, "off")
            /\ enableAllSegments(on, tapes[i].id) = on
            /\ disableAllSegments(off, tapes[i].id) = off

\* "enable all" has switched on all six segments of tape 2, segment 12
\* among them, while tape 2 itself is switched off and segment 6 of tape 1
\* is still off
C24_Witness ==
    /\ Len(tapes) = 2
    /\ tapes[2].id = 2
    /\ ~tapes[2].enabled
    /\ Len(tapes[2].segments) = 6
    /\ \A j \in 1..6 : tapes[2].segments[j].enabled /\ tapes[2].segments[j].status = "normal"
    /\ tapes[2].segments[6].id = 12
    /\ ~tapes[1].segments[6].enabled

\* C28: toggleSegment applied twice to the same segment gives back its
\* enabled flag and every other field except status: a segment that was
\* enabled ends with status normal, also when it had a warning or critical
\* status before, and a segment that was disabled ends with status off.
C28_ToggleTwice ==
    \A i \in 1..Len(tapes) : \A k \in 1..Len(tapes[i].segments) :
        LET old   == tapes[i].segments[k]
            once  == toggleSegment(tapes, tapes[i].id, old.id)
            twice == toggleSegment(once, tapes[i].id, old.id)
            s     == twice[i].segments[k]
        IN  /\ Without(s, "status") = Without(old, "status")
            /\ s.status = (IF old.enabled THEN "normal" ELSE "off")
            /\ [twice EXCEPT ![i].segments[k].status = old.status] = tapes

\* segment 5 of tape 1, created with a warning like segment 1, has been
\* switched off and on again in two steps and is enabled with status normal
C28_Witness ==
    /\ tapes[1].segments[5].id = 5
    /\ tapes[1].segments[5].enabled
    /\ tapes[1].segments[5].status = "normal"
    /\ tapes[1].segments[1].status = "warning"
    /\ steps = 2
    /\ ticks = 0

\* C29: a tick changes nothing but the temperature of effective-enabled
\* segments: the tapes and their segments stay the same in number and order,
\* every tape field, every segment's id, name, enabled flag, power,
\* targetTemp and status and every sensor of its sensors list (temperature,
\* status, lastUpdate) are the same before and after each tick, and so after
\* any number of them.
C29_TickFrame ==
    [][ ticks' = ticks + 1 =>
          /\ SameShape(tapes, tapes')
          /\ \A i \in 1..Len(tapes) :
                /\ Without(tapes'[i], "segments") = Without(tapes[i], "segments")
                /\ \A j \in 1..Len(tapes[i].segments) :
                      LET old == tapes[i].segments[j]
                          new == tapes'[i].segments[j]
                      IN  /\ Without(new, "temperature") = Without(old, "temperature")
                          /\ new.sensors = old.sensors
                          /\ ~Effective(tapes[i], old) => new = old ]_vars

\* two ticks have run and an effective-enabled segment shows a temperature
\* that is no longer the mean of its sensors' readings
C29_Witness ==
    /\ ticks >= 2
    /\ \E i \in 1..Len(tapes) : \E j \in 1..Len(tapes[i].segments) :
          LET s == tapes[i].segments[j]
          IN  /\ Effective(tapes[i], s)
              /\ Len(s.sensors) > 0
              /\ s.temperature #
                    RoundTenths(SumOf([k \in 1..Len(s.sensors) |-> s.sensors[k].temperature]),
                                Len(s.sensors))

\* C30: a restart, which initialises the state again from what loadSettings
\* returns for the stored blob, comes up with the tapes, the alerts and
\* systemOn, autoMode, thresholdTemp, alertSound and pollInterval that were
\* in memory just before it, after any commands and ticks whose saves have
\* run.
C30_RestartKeepsState ==
    [][ loads' = loads + 1 =>
          /\ tapes' = tapes
          /\ alerts' = alerts
          /\ settings' = settings ]_vars

\* the session has restarted from the blob its saves left, after a tape was
\* switched off, a tick ran and alert 1 was acknowledged
C30_Witness ==
    /\ loads = 2
    /\ boot.kind = "json"
    /\ \E i \in 1..Len(tapes) : Has(tapes[i], "enabled") /\ ~tapes[i].enabled
    /\ ticks > 0
    /\ Len(alerts) = 5
    /\ alerts[1].acknowledged
    /\ settings = initialSettings(NullSettings)

\* a blob that loadSettings hands back as it is: no legacy segments list
\* standing in for the tapes, and every tape and segment of the current shape
NeedsNoMigration(v) ==
    IF Has(v, "tapes") THEN CurrentShape(v) ELSE ~Has(v, "segments")

\* the save effect of group g has just run
Saved(g) == g \in pending /\ pending' = pending \ {g}

\* C25 as stated: after a save every key of the partial update holds the new
\* value and every other key of the blob persisted before keeps the value
\* it had.
C25_SaveKeepsOtherKeys ==
    [][ \A g \in Groups : Saved(g) =>
          LET data == Partial(g, tapes, settings, alerts)
          IN  /\ raw'.kind = "json"
              /\ \A k \in DOMAIN data : Has(raw'.value, k) /\ raw'.value[k] = data[k]
              /\ raw.kind = "json" =>
                    \A k \in DOMAIN raw.value \ DOMAIN data :
                        Has(raw'.value, k) /\ raw'.value[k] = raw.value[k] ]_vars

\* C25, amended: after a save every key of the partial update holds the new
\* value, and when the blob persisted before needs no migration every other
\* key of it keeps the value it had.
C25_SaveKeepsOtherKeysOfCurrentShape ==
    [][ \A g \in Groups : Saved(g) =>
          LET data == Partial(g, tapes, settings, alerts)
          IN  /\ raw'.kind = "json"
              /\ \A k \in DOMAIN data : Has(raw'.value, k) /\ raw'.value[k] = data[k]
              /\ (raw.kind = "json" /\ NeedsNoMigration(raw.value)) =>
                    \A k \in DOMAIN raw.value \ DOMAIN data :
                        Has(raw'.value, k) /\ raw'.value[k] = raw.value[k] ]_vars

\* all three effects have run on a stored blob of the current shape that
\* held tapes, alerts and settings other than the ones in memory now
C25_Witness ==
    /\ pending = {}
    /\ boot.kind = "json"
    /\ NeedsNoMigration(boot.value)
    /\ Has(boot.value, "alerts") /\ boot.value.alerts # alerts
    /\ Has(boot.value, "tapes") /\ boot.value.tapes # tapes
    /\ Has(boot.value, "systemOn") /\ boot.value.systemOn # settings.systemOn
    /\ raw.value.tapes = tapes
    /\ raw.value.alerts = alerts

\* the keys written by the three save effects together
GroupKeys == UNION {DOMAIN Partial(g, tapes, settings, alerts) : g \in Groups}

\* the keys of the blob found at startup that no effect writes and that the
\* migration of a legacy blob does not delete
OtherKeys ==
    IF boot.kind = "json"
    THEN (DOMAIN boot.value \ GroupKeys)
            \ (IF Has(boot.value, "tapes") THEN {} ELSE {"segments"})
    ELSE {}

\* C26: the three save effects write disjoint groups of keys, and once all
\* that are due have run, in whatever order, the stored blob is one and the
\* same: it holds the tapes, the five settings and the alerts that are in
\* memory, next to the other keys the store held at startup; no save has
\* dropped what another one wrote.
C26_NoLostUpdate ==
    /\ \A g, h \in Groups :
          g # h => DOMAIN Partial(g, tapes, settings, alerts)
                      \cap DOMAIN Partial(h, tapes, settings, alerts) = {}
    /\ pending = {} =>
          /\ raw.kind = "json"
          /\ DOMAIN raw.value = GroupKeys \cup OtherKeys
          /\ \A g \in Groups :
                LET data == Partial(g, tapes, settings, alerts)
                IN  \A k \in DOMAIN data : raw.value[k] = data[k]
          /\ \A k \in OtherKeys : raw.value[k] = boot.value[k]

\* all effects have run after a tick, a switch of systemOn and an
\* acknowledgement, in a session that found a legacy blob with a tapeLength
C26_Witness ==
    /\ pending = {}
    /\ steps >= 3
    /\ ticks > 0
    /\ boot.kind = "json"
    /\ Has(boot.value, "segments") /\ ~Has(boot.value, "tapes")
    /\ Has(raw.value, "tapeLength")
    /\ ~Has(raw.value, "segments")
    /\ ~settings.systemOn
    /\ raw.value.systemOn = FALSE
    /\ Len(alerts) >= 2 /\ alerts[2].acknowledged
    /\ raw.value.alerts = alerts
    /\ raw.value.tapes = tapes

\* how many updaters of one kind the queue holds
Queues(op) == Cardinality({i \in 1..Len(queue) : queue[i].op = op})

\* what one tick adds to the temperature (in 1/10000 degC, one decimal kept)
\* of the effective-enabled segment with this id, for the draws of TickDraws
TickShift(id) == IF id % 3 = 1 THEN -7000 ELSE IF id % 3 = 2 THEN 7000 ELSE -3000

\* C27: a render that runs a queue of commands and ticks leaves the effect
\* of every one of them in the tapes, in whatever order they were queued:
\* segment 5 has the power and the target that were set and its switch
\* flipped once per toggle, tape 2 has gained a segment per addition and
\* lost segment 12 to the removal, and every segment that was there before
\* and was not switched in the turn has moved by the drift of every tick
\* when effective-enabled and kept its temperature otherwise.
C27_TurnKeepsEveryEffect ==
    [][ (queue # <<>> /\ queue' = <<>>) =>
          LET o5 == tapes[1].segments[5]
              n5 == tapes'[1].segments[5]
              o2 == tapes[2].segments
              n2 == tapes'[2].segments
              toggles == Queues("toggleSegment")
              adds == Queues("addSegmentToTape")
              removes == Queues("removeSegmentFromTape")
          IN  /\ Len(tapes') = Len(tapes)
              /\ \A i \in 1..Len(tapes) :
                    Without(tapes'[i], "segments") = Without(tapes[i], "segments")
              /\ n5.power = (IF Queues("setSegPower") > 0 THEN 100 ELSE o5.power)
              /\ n5.targetTemp = (IF Queues("setSegTargetTemp") > 0 THEN -10 ELSE o5.targetTemp)
              /\ n5.enabled = (IF toggles % 2 = 1 THEN ~o5.enabled ELSE o5.enabled)
              /\ toggles > 0 => n5.status = (IF n5.enabled THEN "normal" ELSE "off")
              /\ n5.temperature \in
                    {o5.temperature + m * TickShift(5) : m \in 0..Queues("tick")}
              /\ Len(tapes'[1].segments) = Len(tapes[1].segments)
              /\ Len(n2) <= Len(o2) + adds
              /\ Len(n2) >= Len(o2) + adds - removes
              /\ (removes > 0 /\ adds = 0 /\ Len(o2) > 1) => \A j \in 1..Len(n2) : n2[j].id # 12
              /\ \A i \in 1..Len(tapes) : \A j \in 1..Len(tapes[i].segments) :
                    LET o == tapes[i].segments[j]
                    IN  (o.id < 12 /\ ~(o.id = 5 /\ toggles > 0)) =>
                            /\ j <= Len(tapes'[i].segments)
                            /\ tapes'[i].segments[j].id = o.id
                            /\ tapes'[i].segments[j].temperature =
                                  o.temperature +
                                    (IF Effective(tapes[i], o)
                                     THEN Queues("tick") * TickShift(o.id) ELSE 0) ]_vars

\* one render has run a tick, a setSegPower and a setSegTargetTemp queued in
\* the same turn: segment 5 has the new power and target, and the
\* temperature of segment 1 has moved
C27_Witness ==
    /\ queue = <<>>
    /\ steps = 4
    /\ ticks = 1
    /\ tapes[1].segments[5].power = 100
    /\ tapes[1].segments[5].targetTemp = -10
    /\ tapes[1].segments[1].temperature
          \notin {createSegment(1, TRUE, d).temperature : d \in SegDraws}

====
